---- MODULE Spec2Model ----
(***************************************************************************)
(* Model of the ScrapeCreators Reddit search client                        *)
(* (src/src/scrapecreator_api/reddit_search.py, response_models.py).       *)
(*                                                                         *)
(* One RedditSearch instance is used by one caller, one search() call at a *)
(* time.  A call is the step Search (validation, directory override) and   *)
(* then one FetchPage step per upstream request; the FetchPage step that   *)
(* leaves the pagination loop also runs the sink and the finally clause.   *)
(* The upstream is the environment: every request gets a nondeterministic  *)
(* transport outcome.                                                      *)
(***************************************************************************)
EXTENDS Integers, Sequences, FiniteSets, TLC

\* ------------------------------------------------------------------ bounds
MaxPages == 2      \* longest upstream page chain when no cap ends the loop
MaxPageLen == 2    \* most items on one page
MaxCap == 2        \* largest max_results a caller passes
MaxCalls == 2      \* search() calls made on the instance
MaxMods == 2       \* most modifiers of one query

\* ------------------------------------------------- Python values and idioms
\* An Optional value: None is the empty tuple, a present value v is <<v>>.
None == << >>
Some(v) == << v >>
Val(o) == o[1]

\* Python truthiness of an Optional[str]: None and "" are falsy.
TruthyStr(o) == o # None /\ Val(o) # ""

\* Python truthiness of an Optional[int]: None and 0 are falsy.
TruthyInt(o) == o # None /\ Val(o) # 0

\* Python list slice s[:n] (n may be negative).
SliceTo(s, n) ==
    IF n >= 0
    THEN SubSeq(s, 1, IF n < Len(s) THEN n ELSE Len(s))
    ELSE SubSeq(s, 1, IF Len(s) + n > 0 THEN Len(s) + n ELSE 0)

\* os.path.expanduser on the paths used here.
HomeDir == "/home/user"
expanduser(p) ==
    CASE p = "~" -> HomeDir
      [] p = "~/results" -> "/home/user/results"
      [] OTHER -> p

\* ------------------------------------------------------------ class constants
VALID_SORT_OPTIONS == {"relevance", "new", "top", "comment_count"}
VALID_TIMEFRAME_OPTIONS == {"all", "day", "week", "month", "year"}
VALID_RETURN_MODES == {"inline", "file"}

\* ------------------------------------------------------------ error taxonomy
\* Exception classes and their direct base class.
BaseOf(cls) ==
    CASE cls = "RedditSearchConnectionError" -> "RedditSearchError"
      [] cls = "RedditSearchAuthenticationError" -> "RedditSearchError"
      [] cls = "RedditSearchAPIError" -> "RedditSearchError"
      [] cls = "RedditSearchError" -> "Exception"
      [] cls = "ValueError" -> "Exception"
      [] cls = "ValidationError" -> "ValueError"
      [] cls = "AttributeError" -> "Exception"
      [] cls = "OSError" -> "Exception"
      [] OTHER -> "Exception"

\* isinstance(e, RedditSearchError)
IsRedditSearchError(cls) ==
    \/ cls = "RedditSearchError"
    \/ BaseOf(cls) = "RedditSearchError"

\* An exception object: its class and, for RedditSearchAPIError, the
\* status_code and message attributes (0 and "" otherwise).
Error(cls, code, msg) == [cls |-> cls, status_code |-> code, message |-> msg]
NoError == Error("", 0, "")

\* ------------------------------------------------------------------ upstream
\* One upstream result item as json() delivers it: a plain dict.  id tells the
\* items apart; full says whether the dict holds every required RedditPost
\* field (created_at_iso included) with a value of the declared type.
\* The pages considered have every item full, or every item but the last.
Items(base, n) ==
    { [j \in 1..n |-> [id |-> base + j, full |-> (j < n \/ lastFull)]] : lastFull \in BOOLEAN }

\* The pages an upstream can answer with, items numbered after base.
PageItems(base) == UNION { Items(base, n) : n \in 0..MaxPageLen }

CursorTokens == {"c1", "c2"}

\* The value of data["after"] in a response body.
AfterValues(mayContinue) ==
    {None, Some("")} \cup (IF mayContinue THEN {Some(c) : c \in CursorTokens} ELSE {})

\* A parsed JSON body: whether it has a "data" object and a top-level "posts"
\* list, the list, and data["after"].
Body(hd, hp, ps, af) == [has_data |-> hd, has_posts |-> hp, posts |-> ps, after |-> af]
EmptyBody == Body(FALSE, FALSE, << >>, None)

Bodies(base, mayContinue) ==
    { Body(TRUE, TRUE, ps, af) : ps \in PageItems(base), af \in AfterValues(mayContinue) }
    \cup { Body(TRUE, FALSE, << >>, None), Body(FALSE, TRUE, << >>, None) }

\* response.text of the error statuses.
StatusText(code) ==
    CASE code = 401 -> "Invalid API key"
      [] code = 204 -> ""
      [] code = 500 -> "Internal server error"
      [] OTHER -> "OK"

\* What self.client.get / response.json() can do for one request: raise
\* (exc), or give a response with a status, a text and a body that parses
\* (json_ok) or not.
Outcome(exc, code, jok, body) ==
    [exc |-> exc, status_code |-> code, text |-> StatusText(code),
     json_ok |-> jok, body |-> body]

Outcomes(base, mayContinue) ==
    { Outcome(e, 0, FALSE, EmptyBody) : e \in {"ConnectError", "RequestError", "Exception"} }
    \cup { Outcome("", c, FALSE, EmptyBody) : c \in {401, 204, 500} }
    \cup { Outcome("", 200, FALSE, EmptyBody) }
    \cup { Outcome("", 200, TRUE, b) : b \in Bodies(base, mayContinue) }

\* ------------------------------------------------------------ pure operations
\* _validate_parameters without the timeframe test.
validate_parameters_no_timeframe(so, tf, mode) ==
    IF so \notin VALID_SORT_OPTIONS THEN Error("ValueError", 0, "Invalid sort option")
    ELSE IF mode \notin VALID_RETURN_MODES THEN Error("ValueError", 0, "Invalid return mode")
    ELSE NoError

\* _validate_parameters: the ValueError it raises, or NoError.
validate_parameters(so, tf, mode) ==
    IF so \notin VALID_SORT_OPTIONS THEN Error("ValueError", 0, "Invalid sort option")
    ELSE IF tf \notin VALID_TIMEFRAME_OPTIONS
         THEN Error("ValueError", 0, "Invalid timeframe option")
    ELSE IF mode \notin VALID_RETURN_MODES THEN Error("ValueError", 0, "Invalid return mode")
    ELSE NoError

\* The "after" query parameter of a request: present only for a truthy cursor.
request_after(cursor) == IF TruthyStr(cursor) THEN cursor ELSE None

\* _raw_search without the clause that re-raises its own two errors: they
\* fall to the catch-all and come out as the generic error.
raw_search_wrapped(o) ==
    IF o.exc \in {"ConnectError", "RequestError"}
    THEN [error |-> Error("RedditSearchConnectionError", 0, "Request error"), body |-> EmptyBody]
    ELSE IF o.exc # "" \/ o.status_code # 200 \/ ~o.json_ok
    THEN [error |-> Error("RedditSearchError", 0, "An unexpected error occurred"), body |-> EmptyBody]
    ELSE [error |-> NoError, body |-> o.body]

\* _raw_search on one transport outcome: the error it raises (NoError when it
\* returns) and the body it returns.
raw_search(o) ==
    IF o.exc = "ConnectError"
    THEN [error |-> Error("RedditSearchConnectionError", 0, "Failed to connect"), body |-> EmptyBody]
    ELSE IF o.exc = "RequestError"
    THEN [error |-> Error("RedditSearchConnectionError", 0, "Request error"), body |-> EmptyBody]
    ELSE IF o.exc # ""
    THEN [error |-> Error("RedditSearchError", 0, "An unexpected error occurred"), body |-> EmptyBody]
    ELSE IF o.status_code = 401
    THEN [error |-> Error("RedditSearchAuthenticationError", 0, "Invalid API key"), body |-> EmptyBody]
    ELSE IF o.status_code # 200
    THEN [error |-> Error("RedditSearchAPIError", o.status_code, o.text), body |-> EmptyBody]
    ELSE IF ~o.json_ok
    THEN [error |-> Error("RedditSearchError", 0, "An unexpected error occurred"), body |-> EmptyBody]
    ELSE [error |-> NoError, body |-> o.body]

\* RedditSearchRawResponse(**response_data) and .posts: the model has the one
\* field data, extra keys are kept unvalidated, and posts is read as an
\* attribute, so it exists only when the body has a top-level "posts".
parse_page(body) ==
    IF ~body.has_data THEN [error |-> Error("ValidationError", 0, "data: field required"), posts |-> << >>]
    ELSE IF ~body.has_posts THEN [error |-> Error("AttributeError", 0, "posts"), posts |-> << >>]
    ELSE [error |-> NoError, posts |-> body.posts]

\* The exhaustion test with "and" for "or".
should_stop_and(cursor, posts) == ~TruthyStr(cursor) /\ posts = << >>

\* The exhaustion test that looks at the cursor alone.
should_stop_cursor_only(cursor, posts) == ~TruthyStr(cursor)

\* The exhaustion test at the end of the loop body: "not after or not posts".
should_stop(cursor, posts) == ~TruthyStr(cursor) \/ posts = << >>

\* The cursor update that keeps the last cursor when the page has none.
next_after_sticky(body, cursor) == IF TruthyStr(body.after) THEN body.after ELSE cursor

\* The cursor the loop keeps for the next request: data.get("after").
next_after(body, cursor) == body.after

\* One pass of the body of the while loop after _raw_search returned body:
\* the error it raises, the new locals, and whether the loop is left.
loop_body(body, results, cursor, fetched, cap) ==
    LET parsed == parse_page(body)
        posts == parsed.posts
        all == results \o posts
        total == fetched + Len(posts)
    IN  IF parsed.error # NoError
        THEN [error |-> parsed.error, all_results |-> results, after |-> cursor,
              total_fetched |-> fetched, stop |-> TRUE]
        ELSE IF TruthyInt(cap) /\ total >= Val(cap)
        THEN [error |-> NoError, all_results |-> SliceTo(all, Val(cap)), after |-> cursor,
              total_fetched |-> total, stop |-> TRUE]
        ELSE [error |-> NoError, all_results |-> all, after |-> next_after(body, cursor),
              total_fetched |-> total,
              stop |-> should_stop(next_after(body, cursor), posts)]

\* RedditPost validation of one collected item when SearchResponse is built:
\* the normalized fields; raw_data is not among the item's keys and takes its
\* default, the empty dict.
RedditPost(item) == [id |-> item.id, raw_data |-> None]

\* SearchResponse(...)
SearchResponse(count, posts, file_path) ==
    [success |-> TRUE, count |-> count, posts |-> posts, file_path |-> file_path]

\* The file written by _save_results_to_file.
File(dir, name, records) == [dir |-> dir, name |-> name, records |-> records]

\* The sink whose file-mode response also carries the posts.
sink_both(results, mode, dir, name, write_ok) ==
    IF mode = "file"
    THEN IF ~write_ok
         THEN [error |-> Error("OSError", 0, dir), response |-> None, file |-> None]
         ELSE [error |-> NoError,
               response |-> Some(SearchResponse(Len(results),
                                 Some([i \in 1..Len(results) |-> RedditPost(results[i])]),
                                 Some(<<dir, name>>))),
               file |-> Some(File(dir, name, << >>))]
    ELSE [error |-> NoError,
          response |-> Some(SearchResponse(Len(results),
                            Some([i \in 1..Len(results) |-> RedditPost(results[i])]), None)),
          file |-> None]

\* The sink of search (the code after the loop): the error it raises, the
\* response it returns and the file it writes.  The collected items are the
\* dicts of the upstream lists: they have no attribute raw_data, and they are
\* validated as RedditPost only when the inline SearchResponse is built.
\* write_ok: whether os.makedirs and open succeed.
sink(results, mode, dir, name, write_ok) ==
    IF mode = "file"
    THEN IF Len(results) > 0
         THEN [error |-> Error("AttributeError", 0, "raw_data"), response |-> None, file |-> None]
         ELSE IF ~write_ok
         THEN [error |-> Error("OSError", 0, dir), response |-> None, file |-> None]
         ELSE [error |-> NoError,
               response |-> Some(SearchResponse(Len(results), None, Some(<<dir, name>>))),
               file |-> Some(File(dir, name, << >>))]
    ELSE IF \E i \in 1..Len(results) : ~results[i].full
         THEN [error |-> Error("ValidationError", 0, "posts"), response |-> None, file |-> None]
         ELSE [error |-> NoError,
               response |-> Some(SearchResponse(Len(results),
                                 Some([i \in 1..Len(results) |-> RedditPost(results[i])]), None)),
               file |-> None]

\* ------------------------------------------------------------- query builder
\* A modifier value with its Python type: a bool, a str or an int.
BoolValue(b) == [type |-> "bool", b |-> b, s |-> "", n |-> 0]
StrValue(s) == [type |-> "str", b |-> FALSE, s |-> s, n |-> 0]
IntValue(n) == [type |-> "int", b |-> FALSE, s |-> "", n |-> n]

\* str(value), as an f-string renders a value.
py_str(v) ==
    CASE v.type = "bool" -> (IF v.b THEN "True" ELSE "False")
      [] v.type = "str" -> v.s
      [] v.type = "int" -> (CASE v.n = 0 -> "0" [] v.n = 5 -> "5" [] OTHER -> "42")

\* str.lower() on the strings used here.
lower(s) ==
    CASE s = "True" -> "true"
      [] s = "False" -> "false"
      [] s = "Python" -> "python"
      [] OTHER -> s

\* The rendering of one modifier that quotes no key.
format_modifier_unquoted(key, value) ==
    IF key = "self"
    THEN key \o ":" \o lower(py_str(value))
    ELSE key \o ":" \o py_str(value)

\* The rendering of one modifier in _build_query_string.
format_modifier(key, value) ==
    IF key = "title" \/ key = "selftext"
    THEN key \o ":\"" \o py_str(value) \o "\""
    ELSE IF key = "self"
    THEN key \o ":" \o lower(py_str(value))
    ELSE key \o ":" \o py_str(value)

\* sep.join(parts)
RECURSIVE join(_, _)
join(sep, parts) ==
    IF Len(parts) = 0 THEN ""
    ELSE IF Len(parts) = 1 THEN parts[1]
    ELSE parts[1] \o sep \o join(sep, Tail(parts))

\* _build_query_string: modifiers is the dict as the sequence of its
\* <<key, value>> items in iteration order.
build_query_string(base_query, modifiers) ==
    LET query_parts ==
            << IF base_query = "" THEN "*" ELSE base_query >>
            \o [i \in 1..Len(modifiers) |-> format_modifier(modifiers[i][1], modifiers[i][2])]
    IN  join(" AND ", query_parts)

\* --------------------------------------------------------------------- state
VARIABLES
    output_dir,           \* self.output_dir of the instance
    pc,                   \* "idle", "paging" (inside the while loop), "returned", "raised"
    sort,                 \* arguments of the call in progress
    timeframe,
    return_mode,
    max_results,
    output_dir_arg,
    original_output_dir,  \* local of search
    all_results,          \* local of search
    after,                \* local of search
    total_fetched,        \* local of search
    requests,             \* the "after" parameter of every request of this call
    responses,            \* the transport outcome of every request of this call
    result,               \* the SearchResponse the call returned, or None
    error,                \* the exception the call raised, or NoError
    files,                \* the files on disk, in the order written
    ncalls,               \* calls made so far
    dir_before,           \* self.output_dir when the call started
    files_before,         \* the files on disk when the call started
    built,                \* the last _build_query_string call: arguments and result
    thr                   \* the calls of the threads that share the instance

vars == <<built, thr, output_dir, pc, sort, timeframe, return_mode, max_results, output_dir_arg, original_output_dir,
          all_results, after, total_fetched, requests, responses, result, error,
          files, ncalls, dir_before, files_before>>

\* ---------------------------------------------------------- argument domains
SortArgs == VALID_SORT_OPTIONS \cup {"hot"}
TimeframeArgs == VALID_TIMEFRAME_OPTIONS \cup {"hour"}
ReturnModeArgs == VALID_RETURN_MODES \cup {"invalid"}
MaxResultsArgs == {None} \cup {Some(n) : n \in -1..MaxCap}
OutputDirArgs == {None, Some(""), Some("~/results")}
CtorDirArgs == {None, Some("/srv/results")}

\* The base queries, modifier keys and modifier values of the builder calls.
BaseQueries == {"", "cats"}
ModifierKeys == {"title", "selftext", "self", "subreddit", "over18"}
ModifierValues ==
    {BoolValue(TRUE), BoolValue(FALSE), StrValue("Python"), StrValue("a b"), IntValue(5)}

\* The dicts of at most MaxMods items: keys are distinct.
Modifiers ==
    UNION { { m \in [1..n -> ModifierKeys \X ModifierValues] :
                \A i, j \in 1..n : i # j => m[i][1] # m[j][1] } : n \in 0..MaxMods }

\* No builder call yet.
NoBuild == [done |-> FALSE, base_query |-> "", modifiers |-> << >>, out |-> ""]

\* The threads that may call search on the instance, and a thread outside a
\* call.
Threads == {1, 2}
IdleThread == [pc |-> "idle", override |-> None, original |-> "", wrote |-> None]

\* __init__: output_dir or SEARCH_RESULTS_DIR (unset here) or "~", expanded.
init_output_dir(arg) == expanduser(IF TruthyStr(arg) THEN Val(arg) ELSE "~")

Init ==
    /\ output_dir \in {init_output_dir(a) : a \in CtorDirArgs}
    /\ pc = "idle"
    /\ sort = "relevance"
    /\ timeframe = "all"
    /\ return_mode = "inline"
    /\ max_results = None
    /\ output_dir_arg = None
    /\ original_output_dir = output_dir
    /\ all_results = << >>
    /\ after = None
    /\ total_fetched = 0
    /\ requests = << >>
    /\ responses = << >>
    /\ result = None
    /\ error = NoError
    /\ files = << >>
    /\ ncalls = 0
    /\ dir_before = output_dir
    /\ files_before = << >>
    /\ built = NoBuild
    /\ thr = [t \in Threads |-> IdleThread]

\* ------------------------------------------------------------------- actions
\* search() up to the first request: validation, then the directory override
\* and the initial locals.  A validation error leaves before the try block.
Search(so, tf, mode, cap, dir) ==
    /\ pc = "idle"
    /\ ncalls < MaxCalls
    /\ ncalls' = ncalls + 1
    /\ sort' = so
    /\ timeframe' = tf
    /\ return_mode' = mode
    /\ max_results' = cap
    /\ output_dir_arg' = dir
    /\ dir_before' = output_dir
    /\ files_before' = files
    /\ requests' = << >>
    /\ responses' = << >>
    /\ result' = None
    /\ all_results' = << >>
    /\ after' = None
    /\ total_fetched' = 0
    /\ UNCHANGED <<files, built, thr>>
    /\ LET v == validate_parameters(so, tf, mode)
       IN  IF v # NoError
           THEN /\ pc' = "raised"
                /\ error' = v
                /\ UNCHANGED <<output_dir, original_output_dir>>
           ELSE /\ pc' = "paging"
                /\ error' = NoError
                /\ original_output_dir' = output_dir
                /\ output_dir' = IF TruthyStr(dir) THEN expanduser(Val(dir)) ELSE output_dir

\* A search without the finally clause.
restored_dir_never == output_dir

\* finally: restore the directory when the call had an override.
restored_dir == IF TruthyStr(output_dir_arg) THEN original_output_dir ELSE output_dir

\* The state a pass of the loop leaves search in.
Pass(p, err, results, cursor, fetched, response, file) ==
    [pc |-> p, error |-> err, all_results |-> results, after |-> cursor,
     total_fetched |-> fetched, result |-> response, file |-> file]

\* A search that swallows the exception once it has collected items and
\* hands what it has to the sink.
propagate_partial(err, results, cursor, fetched, mode, dir, name, write_ok) ==
    LET s == sink(results, mode, dir, name, write_ok)
    IN  IF Len(results) > 0 /\ s.error = NoError
        THEN Pass("returned", NoError, results, cursor, fetched, s.response, s.file)
        ELSE Pass("raised", err, results, cursor, fetched, None, None)

\* An exception raised inside the try block: search has no except clause, the
\* exception leaves through finally, nothing is returned and nothing written.
propagate(err, results, cursor, fetched, mode, dir, name, write_ok) ==
    Pass("raised", err, results, cursor, fetched, None, None)

\* One pass of the while loop on transport outcome o and, when the loop is
\* left, the sink.
search_pass(o, results, cursor, fetched, cap, mode, dir, name, write_ok) ==
    LET r == raw_search(o)
        b == loop_body(r.body, results, cursor, fetched, cap)
        s == sink(b.all_results, mode, dir, name, write_ok)
    IN  IF r.error # NoError
        THEN propagate(r.error, results, cursor, fetched, mode, dir, name, write_ok)
        ELSE IF b.error # NoError
        THEN propagate(b.error, results, cursor, fetched, mode, dir, name, write_ok)
        ELSE IF ~b.stop
        THEN Pass("paging", NoError, b.all_results, b.after, b.total_fetched, None, None)
        ELSE IF s.error # NoError
        THEN propagate(s.error, b.all_results, b.after, b.total_fetched, mode, dir, name, write_ok)
        ELSE Pass("returned", NoError, b.all_results, b.after, b.total_fetched,
                  s.response, s.file)

\* One pass of the while loop: the request, the page handling and, when the
\* loop is left, the sink and the finally clause.
FetchPage(o, write_ok) ==
    /\ pc = "paging"
    /\ requests' = Append(requests, request_after(after))
    /\ responses' = Append(responses, o)
    /\ UNCHANGED <<sort, timeframe, return_mode, max_results, output_dir_arg,
                   original_output_dir, ncalls, dir_before, files_before, built, thr>>
    /\ LET p == search_pass(o, all_results, after, total_fetched, max_results,
                            return_mode, output_dir, Len(files) + 1, write_ok)
       IN  /\ pc' = p.pc
           /\ error' = p.error
           /\ all_results' = p.all_results
           /\ after' = p.after
           /\ total_fetched' = p.total_fetched
           /\ result' = p.result
           /\ files' = IF p.file # None THEN Append(files, Val(p.file)) ELSE files
           /\ output_dir' = IF p.pc = "paging" THEN output_dir ELSE restored_dir

\* The upstream may hand out a cursor while the chain of pages is not at its
\* end; a call with a cap is bounded by the cap instead.
MayContinue == TruthyInt(max_results) \/ Len(requests) + 1 < MaxPages

Request == \E o \in Outcomes(total_fetched, MayContinue), w \in BOOLEAN : FetchPage(o, w)

\* The calls of the main specification: one valid and one invalid value of
\* sort and of timeframe, every return mode, cap and directory.
Call ==
    \E so \in {"relevance", "hot"}, tf \in {"all", "hour"}, mode \in ReturnModeArgs,
       cap \in MaxResultsArgs, dir \in OutputDirArgs :
        Search(so, tf, mode, cap, dir)

\* The calls of the validation specification: every value of the three
\* enums and one value outside each, with the default cap and directory.
CallAnyEnum ==
    \E so \in SortArgs, tf \in TimeframeArgs, mode \in ReturnModeArgs :
        Search(so, tf, mode, None, None)

\* search() has returned or raised: its locals are gone and the caller may
\* call again.
Done ==
    /\ pc \in {"returned", "raised"}
    /\ pc' = "idle"
    /\ sort' = "relevance"
    /\ timeframe' = "all"
    /\ return_mode' = "inline"
    /\ max_results' = None
    /\ output_dir_arg' = None
    /\ original_output_dir' = output_dir
    /\ all_results' = << >>
    /\ after' = None
    /\ total_fetched' = 0
    /\ requests' = << >>
    /\ responses' = << >>
    /\ result' = None
    /\ error' = NoError
    /\ dir_before' = output_dir
    /\ files_before' = files
    /\ UNCHANGED <<output_dir, files, ncalls, built, thr>>

Next == Call \/ Request \/ Done

Spec == Init /\ [][Next]_vars

\* A request is a blocking call with a 30 second timeout: it always ends.
FairSpec == Spec /\ WF_vars(Request)

NextAnyEnum == CallAnyEnum \/ Request \/ Done

\* The variables of the sequential search calls.
callvars == <<pc, sort, timeframe, return_mode, max_results, output_dir_arg,
              original_output_dir, all_results, after, total_fetched, requests,
              responses, result, error, ncalls, dir_before, files_before>>

\* A call of _build_query_string.
BuildQuery(base_query, modifiers) ==
    /\ ~built.done
    /\ built' = [done |-> TRUE, base_query |-> base_query, modifiers |-> modifiers,
                 out |-> build_query_string(base_query, modifiers)]
    /\ UNCHANGED <<callvars, output_dir, files, thr>>

Build == \E q \in BaseQueries, m \in Modifiers : BuildQuery(q, m)

BuilderSpec == Init /\ [][Build]_vars

\* The overrides the concurrent calls pass.
ThreadDirArgs == {None, Some(""), Some("~/results"), Some("/tmp/out")}

\* finally without its test: the saved directory is always written back.
thread_restore_always(override, original, current) == original

\* finally of the call of one thread: the directory it leaves in the instance.
thread_restore(override, original, current) ==
    IF TruthyStr(override) THEN original ELSE current

\* A thread enters search with valid arguments and saves self.output_dir.
ThreadEnter(t, dir) ==
    /\ thr[t].pc = "idle"
    /\ thr' = [thr EXCEPT ![t] = [pc |-> "saved", override |-> dir,
                                  original |-> output_dir, wrote |-> None]]
    /\ UNCHANGED <<callvars, output_dir, files, built>>

\* ... sets the override, if it has one
ThreadOverride(t) ==
    /\ thr[t].pc = "saved"
    /\ thr' = [thr EXCEPT ![t].pc = "try"]
    /\ output_dir' = IF TruthyStr(thr[t].override)
                     THEN expanduser(Val(thr[t].override)) ELSE output_dir
    /\ UNCHANGED <<callvars, files, built>>

\* ... runs the try block: a file-mode call that gets to the sink writes its
\* file under self.output_dir as it is then
ThreadTry(t, writes) ==
    /\ thr[t].pc = "try"
    /\ thr' = [thr EXCEPT ![t].pc = "finally",
                          ![t].wrote = IF writes THEN Some(output_dir) ELSE None]
    /\ files' = IF writes THEN Append(files, File(output_dir, Len(files) + 1, << >>))
                ELSE files
    /\ UNCHANGED <<callvars, output_dir, built>>

\* ... and runs the finally clause.
ThreadFinally(t) ==
    /\ thr[t].pc = "finally"
    /\ thr' = [thr EXCEPT ![t].pc = "done"]
    /\ output_dir' = thread_restore(thr[t].override, thr[t].original, output_dir)
    /\ UNCHANGED <<callvars, files, built>>

Enter == \E t \in Threads, dir \in ThreadDirArgs : ThreadEnter(t, dir)
Override == \E t \in Threads : ThreadOverride(t)
Try == \E t \in Threads, w \in BOOLEAN : ThreadTry(t, w)
Finally == \E t \in Threads : ThreadFinally(t)

NextConcurrent == Enter \/ Override \/ Try \/ Finally

\* Two threads, each making one search call on the shared instance; a thread
\* may be preempted between any two statements.
ConcurrentSpec == Init /\ [][NextConcurrent]_vars

ValidationSpec == Init /\ [][NextAnyEnum]_vars

\* ============================================================== properties
\* Vocabulary of the properties.
Finished == pc \in {"returned", "raised"}

\* The page request answered by outcome o succeeded: _raw_search returned.
PageOk(o) == o.exc = "" /\ o.status_code = 200 /\ o.json_ok

\* ... and the body has the shape the client reads, with complete items.
WellFormed(o) ==
    /\ PageOk(o)
    /\ o.body.has_data
    /\ o.body.has_posts
    /\ \A i \in 1..Len(o.body.posts) : o.body.posts[i].full

\* The call did not fail for a reason outside the client: the disk took the
\* result file.
DiskOk == ~(pc = "raised" /\ error.cls = "OSError")

\* The page ends the pagination: no cursor, or no items.
Exhausted(o) == ~TruthyStr(o.body.after) \/ Len(o.body.posts) = 0

RECURSIVE ConcatPages(_)
ConcatPages(rs) ==
    IF rs = << >> THEN << >>
    ELSE ConcatPages(SubSeq(rs, 1, Len(rs) - 1)) \o rs[Len(rs)].body.posts

Ids(items) == [i \in 1..Len(items) |-> items[i].id]

Prefix(rs, k) == SubSeq(rs, 1, k)

\* The ids of the items a returned response delivers: the inline posts, or the
\* records of the file it names.
ReturnedIds ==
    IF Val(result).posts # None THEN Ids(Val(Val(result).posts))
    ELSE Ids(files[Len(files)].records)

\* C1: when every page request of a call without a cap succeeds, the call
\* returns the items of all fetched pages in page order and within-page order,
\* count is their number, and the requests are the pages up to and including
\* the first page without a cursor or without items.
C1_AllPagesInOrder ==
    (/\ Finished
     /\ Len(responses) >= 1
     /\ max_results = None
     /\ DiskOk
     /\ \A i \in 1..Len(responses) : WellFormed(responses[i]))
    => (/\ pc = "returned"
        /\ result # None
        /\ Val(result).count = Len(ConcatPages(responses))
        /\ ReturnedIds = Ids(ConcatPages(responses))
        /\ Len(requests) = Len(responses)
        /\ Exhausted(responses[Len(responses)])
        /\ \A i \in 1..(Len(responses) - 1) : ~Exhausted(responses[i]))

\* C2: with a positive cap N, a call whose pages hold at least N items stops
\* at the first page that brings the collected items to N or more, and returns
\* exactly the first N items in their original order with count = N.
C2_CapTruncates ==
    (/\ Finished
     /\ Len(responses) >= 1
     /\ TruthyInt(max_results)
     /\ Val(max_results) > 0
     /\ DiskOk
     /\ \A i \in 1..Len(responses) : WellFormed(responses[i])
     /\ Len(ConcatPages(responses)) >= Val(max_results))
    => (/\ pc = "returned"
        /\ result # None
        /\ Val(result).count = Val(max_results)
        /\ ReturnedIds = Ids(SubSeq(ConcatPages(responses), 1, Val(max_results)))
        /\ Len(requests) = Len(responses)
        /\ \A i \in 1..(Len(responses) - 1) :
               Len(ConcatPages(Prefix(responses, i))) < Val(max_results))

\* C3: the first request of a call carries no cursor; every later request
\* carries exactly the cursor of the response before it; and no request
\* follows a page that yielded no cursor or no items.
C3_CursorProtocol ==
    /\ Len(requests) = Len(responses)
    /\ Len(requests) >= 1 => requests[1] = None
    /\ \A i \in 2..Len(requests) :
          /\ PageOk(responses[i - 1])
          /\ TruthyStr(responses[i - 1].body.after)
          /\ requests[i] = responses[i - 1].body.after
    /\ \A i \in 1..Len(responses) :
          (PageOk(responses[i]) /\ Exhausted(responses[i])) => Len(requests) = i

\* A call that made two requests, the second with the second page's cursor,
\* and returned.
C3_Witness ==
    /\ pc = "returned"
    /\ Len(requests) = 2
    /\ requests[2] = Some("c2")
    /\ Exhausted(responses[2])

\* C4: a call whose sort, timeframe or return_mode is outside its enum is
\* rejected with a validation error before any request; a call whose three
\* arguments are members is never rejected by validation.
C4_ValidationGate ==
    pc # "idle" =>
        IF \/ sort \notin {"relevance", "new", "top", "comment_count"}
           \/ timeframe \notin {"all", "day", "week", "month", "year"}
           \/ return_mode \notin {"inline", "file"}
        THEN /\ pc = "raised"
             /\ error.cls = "ValueError"
             /\ Len(requests) = 0
             /\ result = None
        ELSE /\ error.cls # "ValueError"
             /\ pc = "paging" \/ Len(requests) >= 1

\* A call rejected for its timeframe alone.
C4_Witness ==
    /\ pc = "raised"
    /\ sort = "comment_count"
    /\ timeframe = "hour"
    /\ return_mode = "file"
    /\ Len(requests) = 0

RawSearchErrors ==
    {"RedditSearchAuthenticationError", "RedditSearchAPIError",
     "RedditSearchConnectionError", "RedditSearchError"}

\* C5: a page fetch ends in exactly one of five outcomes: status 401 raises
\* the authentication error; any other status but 200 raises the API error
\* with that status and the response text; a transport failure raises the
\* connection error; any other failure raises the generic error; otherwise the
\* body is returned to the loop.
C5_RawSearchOutcomes ==
    Len(responses) >= 1 =>
        LET n == Len(responses)
            o == responses[n]
        IN  /\ \A i \in 1..(n - 1) : PageOk(responses[i])
            /\ (o.exc = "" /\ o.status_code = 401) =>
                   (pc = "raised" /\ error.cls = "RedditSearchAuthenticationError")
            /\ (o.exc = "" /\ o.status_code \notin {200, 401}) =>
                   /\ pc = "raised"
                   /\ error.cls = "RedditSearchAPIError"
                   /\ error.status_code = o.status_code
                   /\ error.message = o.text
            /\ o.exc \in {"ConnectError", "RequestError"} =>
                   (pc = "raised" /\ error.cls = "RedditSearchConnectionError")
            /\ (o.exc = "Exception" \/ (o.exc = "" /\ o.status_code = 200 /\ ~o.json_ok)) =>
                   (pc = "raised" /\ error.cls = "RedditSearchError")
            /\ PageOk(o) => (pc = "raised" => error.cls \notin RawSearchErrors)

\* The second page of a call answered with status 500.
C5_Witness ==
    /\ pc = "raised"
    /\ Len(responses) = 2
    /\ error.cls = "RedditSearchAPIError"
    /\ error.status_code = 500
    /\ error.message = "Internal server error"

\* C6: when the k-th page request fails, the call raises the error of that
\* fetch, makes no further request, returns no response and writes no file.
C6_FailedPageAborts ==
    \A k \in 1..Len(responses) :
        ~PageOk(responses[k]) =>
            /\ k = Len(responses)
            /\ Len(requests) = k
            /\ pc = "raised"
            /\ error = raw_search(responses[k]).error
            /\ result = None
            /\ files = files_before

\* A file-mode call that had collected items when its second page failed.
C6_Witness ==
    /\ pc = "raised"
    /\ return_mode = "file"
    /\ Len(responses) = 2
    /\ ~PageOk(responses[2])
    /\ Len(all_results) >= 1

\* C7: every error that leaves search is a RedditSearchError.
C7_OnlyClientErrors ==
    pc = "raised" => IsRedditSearchError(error.cls)

\* C8: every response search returns is a tagged union: inline has posts and
\* no file_path, with count = length(posts); file has file_path and no posts,
\* with count = the records of the file written; success is true.
C8_TaggedUnion ==
    /\ pc = "returned" => result # None
    /\ result # None =>
          LET r == Val(result)
          IN  /\ pc = "returned"
              /\ r.success
              /\ ~(r.posts # None /\ r.file_path # None)
              /\ ~(r.posts = None /\ r.file_path = None)
              /\ return_mode = "inline" =>
                     /\ r.posts # None
                     /\ r.file_path = None
                     /\ r.count = Len(Val(r.posts))
                     /\ files = files_before
              /\ return_mode = "file" =>
                     /\ r.file_path # None
                     /\ r.posts = None
                     /\ Len(files) = Len(files_before) + 1
                     /\ Val(r.file_path) = <<files[Len(files)].dir, files[Len(files)].name>>
                     /\ r.count = Len(files[Len(files)].records)

\* A file-mode call that returned.
C8_Witness ==
    /\ pc = "returned"
    /\ return_mode = "file"
    /\ Val(result).file_path # None
    /\ Val(result).posts = None
    /\ Len(files) = Len(files_before) + 1

\* C9: when a call returns or raises, the instance's output directory is the
\* one it had before the call; a file is written under the expanded override
\* when the call has one, under the instance's directory otherwise.
C9_OutputDirRestored ==
    Finished =>
        /\ output_dir = dir_before
        /\ files # files_before =>
              /\ Len(files) = Len(files_before) + 1
              /\ Prefix(files, Len(files_before)) = files_before
              /\ files[Len(files)].dir =
                     IF output_dir_arg # None /\ Val(output_dir_arg) # ""
                     THEN (IF Val(output_dir_arg) = "~/results"
                           THEN "/home/user/results" ELSE Val(output_dir_arg))
                     ELSE dir_before

\* A file-mode call without override that wrote under the instance's
\* directory after an earlier call wrote under its override.
C9_Witness ==
    /\ pc = "returned"
    /\ ncalls = 2
    /\ output_dir_arg = None
    /\ Len(files) = 2
    /\ files[1].dir = "/home/user/results"
    /\ files[2].dir = output_dir
    /\ files[2].dir # files[1].dir

\* C10: with a finite chain of pages every call returns or raises, and every
\* pass of the loop either replaces the cursor by the one just received or
\* leaves the loop.
C10_Terminates ==
    /\ (pc = "paging") ~> Finished
    /\ [][(pc = "paging" /\ Len(responses') = Len(responses) + 1) =>
             \/ pc' # "paging"
             \/ after' = responses'[Len(responses')].body.after]_vars

\* An uncapped call that followed a cursor and then ended.
C10_Witness ==
    /\ pc = "returned"
    /\ max_results = None
    /\ Len(requests) = 2
    /\ after # Some("c1")
    /\ requests[2] = Some("c1")

\* The strings one modifier may render as: quoted for title and selftext,
\* key:value otherwise.
RenderedTerms(key, value) ==
    IF key \in {"title", "selftext"}
    THEN {key \o ":" \o "\"" \o py_str(value) \o "\""}
    ELSE {key \o ":" \o py_str(value), key \o ":" \o lower(py_str(value))}

\* The strings that are head followed by " AND " and one rendered term per
\* modifier, in order.
RECURSIVE Renderings(_, _)
Renderings(head, modifiers) ==
    IF Len(modifiers) = 0 THEN {head}
    ELSE LET n == Len(modifiers)
         IN  { r \o " AND " \o t :
                 r \in Renderings(head, SubSeq(modifiers, 1, n - 1)),
                 t \in RenderedTerms(modifiers[n][1], modifiers[n][2]) }

\* C11: build returns the base query, or "*" for an empty one, followed by one
\* rendered term per modifier in iteration order, joined by " AND "; title and
\* selftext are quoted, every other key renders as key:value; without
\* modifiers the result is the base query or "*" alone.
C11_BuildQuery ==
    built.done =>
        /\ built.out \in Renderings(IF built.base_query = "" THEN "*" ELSE built.base_query,
                                     built.modifiers)
        /\ built.modifiers = << >> =>
               built.out = (IF built.base_query = "" THEN "*" ELSE built.base_query)

\* An empty base query with a quoted and an unknown modifier.
C11_Witness ==
    /\ built.done
    /\ built.base_query = ""
    /\ built.modifiers = << <<"title", StrValue("a b")>>, <<"over18", IntValue(5)>> >>
    /\ built.out = "* AND title:\"a b\" AND over18:5"

\* The term a modifier renders as when the rendering goes by the type of the
\* value: lowercase true/false for a boolean, the plain string otherwise.
TermByType(key, value) ==
    IF key \in {"title", "selftext"} THEN key \o ":" \o "\"" \o py_str(value) \o "\""
    ELSE IF value.type = "bool" THEN key \o ":" \o (IF value.b THEN "true" ELSE "false")
    ELSE key \o ":" \o py_str(value)

RECURSIVE RenderingByType(_, _)
RenderingByType(head, modifiers) ==
    IF Len(modifiers) = 0 THEN head
    ELSE LET n == Len(modifiers)
         IN  RenderingByType(head, SubSeq(modifiers, 1, n - 1))
             \o " AND " \o TermByType(modifiers[n][1], modifiers[n][2])

\* C12: for every key but title and selftext, a boolean value renders as
\* lowercase true or false and any other value as its plain string, letter
\* case unchanged, whatever the key.
C12_RenderByType ==
    built.done =>
        built.out = RenderingByType(IF built.base_query = "" THEN "*" ELSE built.base_query,
                                    built.modifiers)

\* The directory a call's file belongs in: the expanded override, or the
\* instance's directory.
EffectiveDir ==
    IF output_dir_arg # None /\ Val(output_dir_arg) # ""
    THEN (IF Val(output_dir_arg) = "~/results" THEN "/home/user/results"
          ELSE Val(output_dir_arg))
    ELSE dir_before

\* C13: a file-mode search whose pages succeed creates exactly one new file,
\* in the effective output directory, holding the verbatim upstream objects
\* of the collected, capped items in collected order, and returns that file's
\* path with posts unset; an inline search creates no file.
C13_FileSink ==
    /\ (/\ Finished
        /\ return_mode = "file"
        /\ Len(responses) >= 1
        /\ DiskOk
        /\ \A i \in 1..Len(responses) : WellFormed(responses[i]))
       => (/\ pc = "returned"
           /\ result # None
           /\ Len(files) = Len(files_before) + 1
           /\ Prefix(files, Len(files_before)) = files_before
           /\ files[Len(files)].dir = EffectiveDir
           /\ files[Len(files)].records = all_results
           /\ Val(result).posts = None
           /\ Val(result).file_path = Some(<<files[Len(files)].dir, files[Len(files)].name>>))
    /\ (Finished /\ return_mode = "inline") => files = files_before

\* C14: an inline search whose pages all come back with status 200 and the
\* expected shape never fails for an item that lacks Post fields: every
\* collected item is returned normalized, with its raw fields retained.
C14_MissingFieldsDefaulted ==
    (/\ Finished
     /\ return_mode = "inline"
     /\ Len(responses) >= 1
     /\ \A i \in 1..Len(responses) :
           PageOk(responses[i]) /\ responses[i].body.has_data /\ responses[i].body.has_posts)
    => (/\ pc = "returned"
        /\ result # None
        /\ Val(result).posts # None
        /\ Len(Val(Val(result).posts)) = Len(all_results)
        /\ \A i \in 1..Len(all_results) :
              /\ Val(Val(result).posts)[i].id = all_results[i].id
              /\ Val(Val(result).posts)[i].raw_data = Some(all_results[i]))

\* C15: whenever max_results is an integer, 0 included, count and the number
\* of posts returned or written never exceed it.
C15_CapIsMaximum ==
    (result # None /\ max_results # None /\ Val(max_results) >= 0)
    => (/\ Val(result).count <= Val(max_results)
        /\ Len(ReturnedIds) <= Val(max_results))

\* C16: with a positive cap N a call makes at most N requests whatever the
\* upstream answers: while the loop goes on every page has added an item and
\* the cap is not reached; so the call ends.
C16_CapBoundsRequests ==
    /\ []((max_results # None /\ Val(max_results) > 0) =>
            /\ Len(requests) <= Val(max_results)
            /\ pc = "paging" =>
                   (Len(requests) <= total_fetched /\ total_fetched < Val(max_results)))
    /\ (pc = "paging" /\ max_results # None /\ Val(max_results) > 0) ~> Finished

\* A capped call that used all its requests on an upstream that repeats one
\* cursor and would go on.
C16_Witness ==
    /\ pc = "returned"
    /\ max_results = Some(2)
    /\ Len(requests) = 2
    /\ requests[2] = Some("c1")
    /\ responses[2].body.after = Some("c1")
    /\ Val(result).count = 2

BothDone == \A t \in Threads : thr[t].pc = "done"

\* C17 as stated: when two concurrent calls, at least one with an override,
\* have both finished, the instance's directory is the one it had before
\* either call.
C17_NoOverrideSurvives ==
    (BothDone /\ \E t \in Threads : TruthyStr(thr[t].override))
    => output_dir = dir_before

\* C17 amended: when two concurrent calls, exactly one with an override, have
\* both finished, the instance's directory is the one it had before either
\* call.
C17_OneOverrideRestored ==
    (/\ BothDone
     /\ \E t \in Threads : TruthyStr(thr[t].override)
     /\ \E t \in Threads : ~TruthyStr(thr[t].override))
    => output_dir = dir_before

\* Thread 2, without override, ran inside the override of thread 1 (its file
\* went to that directory) and finished last.
C17_Witness ==
    /\ BothDone
    /\ thr[1].override = Some("~/results")
    /\ thr[2].override = None
    /\ thr[2].original = "/home/user/results"
    /\ thr[2].wrote = Some("/home/user/results")
    /\ thr[2].original # dir_before
    /\ output_dir = dir_before

====
